---- MODULE Spec2Model ----
(***************************************************************************)
(* Model of src/stabilizer.py: class Stabilizer, a thin layer over         *)
(* cv2.KalmanFilter (constant-velocity Kalman filter for a scalar or a 2D  *)
(* point).                                                                 *)
(*                                                                         *)
(* Numbers: the float32 entries of the matrices are modelled as exact      *)
(* rationals <<numerator, denominator>> in lowest terms (denominator > 0). *)
(* The inputs are small integers, which np.float32 represents exactly;     *)
(* the rounding of float32 arithmetic is not modelled.                     *)
(* Matrices are sequences of rows; every operation of the library that     *)
(* checks shapes is modelled with its shape check, because the constructor *)
(* can build filters whose matrices do not fit together.                   *)
(* The filter's gain and temporaries (temp1..temp5) are rewritten before   *)
(* they are read in every predict/correct and are not part of the state.   *)
(***************************************************************************)
EXTENDS Integers, Sequences, FiniteSets, TLC

VARIABLES inst, solo, last, ncalls

vars == <<inst, solo, last, ncalls>>

-----------------------------------------------------------------------------
(* Bounds and input sets *)

\* calls (update / set_q_r) made on one instance in the general specification
MaxCalls == 2
\* update cycles in the constant-measurement specification
MaxCycles == 4
\* calls made on one instance in the two-instance specification
MaxPairCalls == 2

Inst == {1, 2}

StateNums == {2, 3, 4, 6}
MeasureNums == {0, 1, 2, 3}
\* covariance arguments tried, positive ones first
CovVals == <<1, 2, 0, -1>>
PosCov == {1, 2}
Measurements == {<<>>, <<3>>, <<3, 5>>, <<3, 5, 7>>}

-----------------------------------------------------------------------------
(* Exact rational arithmetic *)

Abs(a) == IF a < 0 THEN -a ELSE a

RECURSIVE GCD(_, _)
GCD(a, b) == IF b = 0 THEN a ELSE GCD(b, a % b)

\* n/d in lowest terms, d /= 0
Rat(n, d) ==
    LET g == GCD(Abs(n), Abs(d))
        s == IF d < 0 THEN -1 ELSE 1
    IN  <<s * (n \div g), s * (d \div g)>>

\* np.float32(k) of a small integer k: exact
float32(k) == <<k, 1>>

RZero == <<0, 1>>
ROne == <<1, 1>>

RAdd(x, y) ==
    LET g == GCD(x[2], y[2])
    IN  Rat(x[1] * (y[2] \div g) + y[1] * (x[2] \div g), (x[2] \div g) * y[2])

RNeg(x) == <<-x[1], x[2]>>

RSub(x, y) == RAdd(x, RNeg(y))

RMul(x, y) ==
    LET g1 == GCD(Abs(x[1]), y[2])
        g2 == GCD(Abs(y[1]), x[2])
    IN  <<(x[1] \div g1) * (y[1] \div g2), (x[2] \div g2) * (y[2] \div g1)>>

\* x / y, y /= 0
RDiv(x, y) ==
    RMul(x, IF y[1] < 0 THEN <<-y[2], -y[1]>> ELSE <<y[2], y[1]>>)

RAbs(x) == <<Abs(x[1]), x[2]>>

RLeq(x, y) == RSub(x, y)[1] <= 0

RLess(x, y) == RSub(x, y)[1] < 0

-----------------------------------------------------------------------------
(* Dense matrices: sequences of rows of rationals *)

\* a function over 1..n as a tuple (values held, not recomputed on each access)
AsSeq(f) == <<>> \o f

Rows(M) == Len(M)

Cols(M) == IF Len(M) = 0 THEN 0 ELSE Len(M[1])

Shape(M) == <<Rows(M), Cols(M)>>

Zeros(r, c) == AsSeq([i \in 1..r |-> AsSeq([j \in 1..c |-> RZero])])

\* c times the n x n identity
ScaledEye(n, c) ==
    AsSeq([i \in 1..n |-> AsSeq([j \in 1..n |-> IF i = j THEN c ELSE RZero])])

Eye(n) == ScaledEye(n, ROne)

\* a matrix given by integer rows, as np.array(rows, np.float32)
FromInts(rows) ==
    AsSeq([i \in 1..Len(rows) |->
        AsSeq([j \in 1..Len(rows[i]) |-> float32(rows[i][j])])])

Transpose(M) ==
    AsSeq([j \in 1..Cols(M) |-> AsSeq([i \in 1..Rows(M) |-> M[i][j]])])

RECURSIVE Dot(_, _, _, _, _)
Dot(A, B, i, j, k) ==
    IF k = 0 THEN RZero
    ELSE RAdd(Dot(A, B, i, j, k - 1), RMul(A[i][k], B[k][j]))

CanMul(A, B) == Cols(A) = Rows(B)

MatMul(A, B) ==
    AsSeq([i \in 1..Rows(A) |->
        AsSeq([j \in 1..Cols(B) |-> Dot(A, B, i, j, Cols(A))])])

MatAdd(A, B) ==
    AsSeq([i \in 1..Rows(A) |->
        AsSeq([j \in 1..Cols(A) |-> RAdd(A[i][j], B[i][j])])])

MatSub(A, B) ==
    AsSeq([i \in 1..Rows(A) |->
        AsSeq([j \in 1..Cols(A) |-> RSub(A[i][j], B[i][j])])])

MatScale(c, A) ==
    AsSeq([i \in 1..Rows(A) |->
        AsSeq([j \in 1..Cols(A) |-> RMul(c, A[i][j])])])

Det2(S) == RSub(RMul(S[1][1], S[2][2]), RMul(S[1][2], S[2][1]))

Adj2(S) == <<<<S[2][2], RNeg(S[1][2])>>, <<RNeg(S[2][1]), S[1][1]>>>>

\* squared Frobenius norm of a 2 x 2 matrix
Frob2(S) ==
    RAdd(RAdd(RMul(S[1][1], S[1][1]), RMul(S[1][2], S[1][2])),
         RAdd(RMul(S[2][1], S[2][1]), RMul(S[2][2], S[2][2])))

\* The pseudo-inverse of a 1 x 1 or 2 x 2 matrix: what cv::solve with
\* DECOMP_SVD multiplies the right-hand side by (singular values of zero
\* are dropped, so a singular system gets its least-norm solution).
PInv(S) ==
    IF Rows(S) = 1
    THEN IF S[1][1][1] = 0 THEN S ELSE <<<<RDiv(ROne, S[1][1])>>>>
    ELSE IF Det2(S)[1] # 0 THEN MatScale(RDiv(ROne, Det2(S)), Adj2(S))
    ELSE IF Frob2(S)[1] = 0 THEN S
    ELSE MatScale(RDiv(ROne, Frob2(S)), Transpose(S))

-----------------------------------------------------------------------------
(* cv2.KalmanFilter as used by Stabilizer *)

\* an instance slot before construction
NoInst ==
    [constructed |-> FALSE, state_num |-> 0, measure_num |-> 0,
     transitionMatrix |-> <<>>, measurementMatrix |-> <<>>,
     processNoiseCov |-> <<>>, measurementNoiseCov |-> <<>>,
     statePre |-> <<>>, statePost |-> <<>>,
     errorCovPre |-> <<>>, errorCovPost |-> <<>>,
     state |-> <<>>, measurement |-> <<>>, prediction |-> <<>>]

\* cv2.KalmanFilter(state_num, measure_num, 0): the library's initial
\* values (F = I, H = 0, Q = I, R = I, states and error covariances zero).
KalmanFilter(s, state_num, measure_num) ==
    [s EXCEPT !.transitionMatrix = Eye(state_num),
              !.measurementMatrix = Zeros(measure_num, state_num),
              !.processNoiseCov = Eye(state_num),
              !.measurementNoiseCov = Eye(measure_num),
              !.statePre = Zeros(state_num, 1),
              !.statePost = Zeros(state_num, 1),
              !.errorCovPre = Zeros(state_num, state_num),
              !.errorCovPost = Zeros(state_num, state_num)]

\* filter.predict(): statePre = F*statePost; errorCovPre = F*P*F' + Q;
\* both copied to the Post fields; returns statePre.  A shape mismatch
\* raises cv2.error at the operation that meets it.
predict(s) ==
    LET F == s.transitionMatrix
        Q == s.processNoiseCov
    IN  IF ~CanMul(F, s.statePost)
        THEN [ok |-> FALSE, inst |-> s]
        ELSE LET s1 == [s EXCEPT !.statePre = MatMul(F, s.statePost)]
             IN  IF ~CanMul(F, s.errorCovPost)
                    \/ Cols(s.errorCovPost) # Cols(F)
                    \/ Shape(Q) # <<Rows(F), Rows(F)>>
                 THEN [ok |-> FALSE, inst |-> s1]
                 ELSE LET P == MatAdd(MatMul(MatMul(F, s.errorCovPost),
                                             Transpose(F)), Q)
                      IN  [ok |-> TRUE,
                           inst |-> [s1 EXCEPT !.errorCovPre = P,
                                               !.errorCovPost = P,
                                               !.statePost = s1.statePre]]

\* filter.correct(z): temp2 = H*P; temp3 = temp2*H' + R;
\* gain = solve(temp3, temp2)'; temp5 = z - H*statePre;
\* statePost = statePre + gain*temp5; errorCovPost = errorCovPre - gain*temp2.
\* A shape mismatch raises cv2.error before statePost/errorCovPost are written.
correct(s, z) ==
    LET H == s.measurementMatrix
        R == s.measurementNoiseCov
        P == s.errorCovPre
    IN  IF ~CanMul(H, P)
           \/ Cols(P) # Cols(H)
           \/ Shape(R) # <<Rows(H), Rows(H)>>
           \/ ~CanMul(H, s.statePre)
           \/ Shape(z) # <<Rows(H), Cols(s.statePre)>>
        THEN [ok |-> FALSE, inst |-> s]
        ELSE LET temp2 == MatMul(H, P)
                 temp3 == MatAdd(MatMul(temp2, Transpose(H)), R)
                 gain == Transpose(MatMul(PInv(temp3), temp2))
                 temp5 == MatSub(z, MatMul(H, s.statePre))
             IN  [ok |-> TRUE,
                  inst |-> [s EXCEPT
                      !.statePost = MatAdd(s.statePre, MatMul(gain, temp5)),
                      !.errorCovPost = MatSub(P, MatMul(gain, temp2))]]

-----------------------------------------------------------------------------
(* class Stabilizer *)

\* Stabilizer.__init__(state_num, measure_num, cov_process, cov_measure)
Stabilizer(state_num, measure_num, cov_process, cov_measure) ==
    IF ~(state_num = 4 \/ state_num = 2)
    THEN [result |-> "AssertionError", inst |-> NoInst]
    ELSE IF ~(state_num > 0 /\ measure_num > 0)
    THEN [result |-> "cv2.error", inst |-> NoInst]
    ELSE
    LET s0 == KalmanFilter([NoInst EXCEPT !.constructed = TRUE,
                                          !.state_num = state_num,
                                          !.measure_num = measure_num],
                           state_num, measure_num)
        s1 == [s0 EXCEPT !.state = Zeros(state_num, 1),
                         \* np.array((measure_num, 1)): the 1-D array
                         \* [measure_num, 1], kept here as one row
                         !.measurement = <<<<float32(measure_num), float32(1)>>>>,
                         !.prediction = Zeros(state_num, 1)]
        s2 == IF measure_num = 1
              THEN [s1 EXCEPT
                      !.transitionMatrix = FromInts(<<<<1, 1>>, <<0, 1>>>>),
                      !.measurementMatrix = FromInts(<<<<1, 1>>>>),
                      !.processNoiseCov = ScaledEye(2, float32(cov_process)),
                      !.measurementNoiseCov = ScaledEye(1, float32(cov_measure))]
              ELSE s1
        s3 == IF measure_num = 2
              THEN [s2 EXCEPT
                      !.transitionMatrix = FromInts(<<<<1, 0, 1, 0>>,
                                                      <<0, 1, 0, 1>>,
                                                      <<0, 0, 1, 0>>,
                                                      <<0, 0, 0, 1>>>>),
                      !.measurementMatrix = FromInts(<<<<1, 0, 0, 0>>,
                                                       <<0, 1, 0, 0>>>>),
                      !.processNoiseCov = ScaledEye(4, float32(cov_process)),
                      !.measurementNoiseCov = ScaledEye(2, float32(cov_measure))]
              ELSE s2
    IN  [result |-> "ok", inst |-> s3]

\* update with the prediction read after correct (from statePost)
update_stale_prediction(s, measurement) ==
    LET p == predict(s)
    IN  IF ~p.ok
        THEN [result |-> "cv2.error", stage |-> "predict", inst |-> p.inst]
        ELSE
        LET need == IF s.measure_num = 1 THEN 1 ELSE 2
        IN  IF Len(measurement) < need
            THEN [result |-> "IndexError", stage |-> "pack", inst |-> p.inst]
            ELSE
            LET z == AsSeq([k \in 1..need |-> <<float32(measurement[k])>>])
                c == correct([p.inst EXCEPT !.measurement = z], z)
            IN  IF ~c.ok
                THEN [result |-> "cv2.error", stage |-> "correct", inst |-> c.inst]
                ELSE [result |-> "ok", stage |-> "done",
                      inst |-> [c.inst EXCEPT !.state = c.inst.statePost,
                                              !.prediction = c.inst.statePost]]

\* update with the field state read from statePre instead of statePost
update_state_pre(s, measurement) ==
    LET p == predict(s)
    IN  IF ~p.ok
        THEN [result |-> "cv2.error", stage |-> "predict", inst |-> p.inst]
        ELSE
        LET s1 == [p.inst EXCEPT !.prediction = p.inst.statePre]
            need == IF s.measure_num = 1 THEN 1 ELSE 2
        IN  IF Len(measurement) < need
            THEN [result |-> "IndexError", stage |-> "pack", inst |-> s1]
            ELSE
            LET z == AsSeq([k \in 1..need |-> <<float32(measurement[k])>>])
                c == correct([s1 EXCEPT !.measurement = z], z)
            IN  IF ~c.ok
                THEN [result |-> "cv2.error", stage |-> "correct", inst |-> c.inst]
                ELSE [result |-> "ok", stage |-> "done",
                      inst |-> [c.inst EXCEPT !.state = c.inst.statePre]]

\* update that restores the instance when a step raises
update_atomic(s, measurement) ==
    LET p == predict(s)
    IN  IF ~p.ok
        THEN [result |-> "cv2.error", stage |-> "predict", inst |-> s]
        ELSE
        LET s1 == [p.inst EXCEPT !.prediction = p.inst.statePre]
            need == IF s.measure_num = 1 THEN 1 ELSE 2
        IN  IF Len(measurement) < need
            THEN [result |-> "IndexError", stage |-> "pack", inst |-> s]
            ELSE
            LET z == AsSeq([k \in 1..need |-> <<float32(measurement[k])>>])
                c == correct([s1 EXCEPT !.measurement = z], z)
            IN  IF ~c.ok
                THEN [result |-> "cv2.error", stage |-> "correct", inst |-> s]
                ELSE [result |-> "ok", stage |-> "done",
                      inst |-> [c.inst EXCEPT !.state = c.inst.statePost]]

\* Stabilizer.update(measurement); measurement is a tuple of integers.
\* stage names the step that raised ("predict", "pack", "correct") or "done".
update(s, measurement) ==
    LET p == predict(s)
    IN  IF ~p.ok
        THEN [result |-> "cv2.error", stage |-> "predict", inst |-> p.inst]
        ELSE
        LET s1 == [p.inst EXCEPT !.prediction = p.inst.statePre]
            need == IF s.measure_num = 1 THEN 1 ELSE 2
        IN  IF Len(measurement) < need
            THEN [result |-> "IndexError", stage |-> "pack", inst |-> s1]
            ELSE
            LET z == AsSeq([k \in 1..need |-> <<float32(measurement[k])>>])
                s2 == [s1 EXCEPT !.measurement = z]
                c == correct(s2, z)
            IN  IF ~c.ok
                THEN [result |-> "cv2.error", stage |-> "correct", inst |-> c.inst]
                ELSE [result |-> "ok", stage |-> "done",
                      inst |-> [c.inst EXCEPT !.state = c.inst.statePost]]

\* Stabilizer.set_q_r(cov_process, cov_measure)
set_q_r(s, cov_process, cov_measure) ==
    IF s.measure_num = 1
    THEN [s EXCEPT !.processNoiseCov = ScaledEye(2, float32(cov_process)),
                   !.measurementNoiseCov = ScaledEye(1, float32(cov_measure))]
    ELSE [s EXCEPT !.processNoiseCov = ScaledEye(4, float32(cov_process)),
                   !.measurementNoiseCov = ScaledEye(2, float32(cov_measure))]

-----------------------------------------------------------------------------
(* The calls a client makes.  last records the latest call: its operation, *)
(* instance, arguments, outcome and the instance as it was before;         *)
(* solo[i] is instance i's state computed from i's own calls alone.        *)

NoCall ==
    [op |-> "none", i |-> 0, args |-> <<>>, result |-> "none",
     stage |-> "none", before |-> NoInst]

Init ==
    /\ inst = [i \in Inst |-> NoInst]
    /\ solo = [i \in Inst |-> NoInst]
    /\ last = NoCall
    /\ ncalls = [i \in Inst |-> 0]

\* A = Stabilizer(state_num, measure_num, cov_process, cov_measure)
CallInit(i, state_num, measure_num, cov_process, cov_measure) ==
    LET r == Stabilizer(state_num, measure_num, cov_process, cov_measure)
    IN  /\ ~inst[i].constructed
        /\ inst' = [inst EXCEPT ![i] = r.inst]
        /\ solo' = [solo EXCEPT ![i] = r.inst]
        /\ last' = [op |-> "init", i |-> i,
                    args |-> <<state_num, measure_num, cov_process, cov_measure>>,
                    result |-> r.result, stage |-> "done", before |-> inst[i]]
        /\ UNCHANGED ncalls

\* A.update(measurement)
CallUpdate(i, measurement, bound) ==
    LET r == update(inst[i], measurement)
    IN  /\ inst[i].constructed
        /\ ncalls[i] < bound
        /\ inst' = [inst EXCEPT ![i] = r.inst]
        /\ solo' = [solo EXCEPT ![i] = update(solo[i], measurement).inst]
        /\ last' = [op |-> "update", i |-> i, args |-> measurement,
                    result |-> r.result, stage |-> r.stage, before |-> inst[i]]
        /\ ncalls' = [ncalls EXCEPT ![i] = @ + 1]

\* set_q_r writing noise matrices that all instances share
CallSetQR_shared(i, cov_process, cov_measure, bound) ==
    /\ inst[i].constructed
    /\ ncalls[i] < bound
    /\ inst' = [j \in Inst |->
                  IF inst[j].constructed
                  THEN set_q_r(inst[j], cov_process, cov_measure)
                  ELSE inst[j]]
    /\ solo' = [solo EXCEPT ![i] = set_q_r(solo[i], cov_process, cov_measure)]
    /\ last' = [op |-> "set_q_r", i |-> i, args |-> <<cov_process, cov_measure>>,
                result |-> "ok", stage |-> "done", before |-> inst[i]]
    /\ ncalls' = [ncalls EXCEPT ![i] = @ + 1]

\* A.set_q_r(cov_process, cov_measure)
CallSetQR(i, cov_process, cov_measure, bound) ==
    /\ inst[i].constructed
    /\ ncalls[i] < bound
    /\ inst' = [inst EXCEPT ![i] = set_q_r(inst[i], cov_process, cov_measure)]
    /\ solo' = [solo EXCEPT ![i] = set_q_r(solo[i], cov_process, cov_measure)]
    /\ last' = [op |-> "set_q_r", i |-> i, args |-> <<cov_process, cov_measure>>,
                result |-> "ok", stage |-> "done", before |-> inst[i]]
    /\ ncalls' = [ncalls EXCEPT ![i] = @ + 1]

\* General specification: one instance, any constructor arguments, any calls.
Construct ==
    \E sn \in StateNums, mn \in MeasureNums :
        \E q \in DOMAIN CovVals, r \in DOMAIN CovVals :
            CallInit(1, sn, mn, CovVals[q], CovVals[r])

Update == \E m \in Measurements : CallUpdate(1, m, MaxCalls)

SetQR ==
    \E q \in DOMAIN CovVals, r \in DOMAIN CovVals :
        CallSetQR(1, CovVals[q], CovVals[r], MaxCalls)

Next == Construct \/ Update \/ SetQR

Spec == Init /\ [][Next]_vars

\* Constant-measurement specification: a freshly constructed instance of a
\* supported configuration with positive covariances, then update called
\* repeatedly with one and the same measurement of the right arity.
ConstModes == {<<2, 1>>, <<4, 2>>}
ConstMeasurements == {<<3>>, <<-2>>, <<0>>, <<3, 5>>, <<-2, 4>>, <<0, 3>>}

ConstructFresh ==
    \E mode \in ConstModes, q \in PosCov, r \in PosCov :
        CallInit(1, mode[1], mode[2], q, r)

UpdateConst ==
    \E m \in ConstMeasurements :
        /\ Len(m) = inst[1].measure_num
        /\ last.op = "update" => last.args = m
        /\ CallUpdate(1, m, MaxCycles)

NextConst == ConstructFresh \/ UpdateConst

SpecConst == Init /\ [][NextConst]_vars

\* Two-instance specification: whole calls on instances 1 and 2 interleaved
\* in every order.
PairCtorArgs == {<<4, 2, 1, 1>>, <<2, 1, 1, 2>>, <<2, 3, 1, 1>>}
PairMeasurements == {<<3>>, <<3, 5>>}

PairConstruct ==
    \E i \in Inst, a \in PairCtorArgs : CallInit(i, a[1], a[2], a[3], a[4])

PairUpdate ==
    \E i \in Inst, m \in PairMeasurements : CallUpdate(i, m, MaxPairCalls)

PairSetQR == \E i \in Inst : CallSetQR(i, 2, 1, MaxPairCalls)

NextPair == PairConstruct \/ PairUpdate \/ PairSetQR

SpecPair == Init /\ [][NextPair]_vars

-----------------------------------------------------------------------------
(* Properties.  In all of them b is the instance before the latest call   *)
(* and a the same instance after it.                                       *)

\* <<state_num, measure_num>> is one of the two documented configurations
Supported(s) == <<s.state_num, s.measure_num>> \in ConstModes

\* the measurement column update packs from the first m components
MeasCol(args, m) == AsSeq([k \in 1..m |-> <<float32(args[k])>>])

\* determinant and adjugate of a 1 x 1 or 2 x 2 matrix
Det(S) == IF Rows(S) = 1 THEN S[1][1] ELSE Det2(S)

Adj(S) == IF Rows(S) = 1 THEN <<<<ROne>>>> ELSE Adj2(S)

\* M is n x n, zero off the diagonal, one value on it
IsScaledEye(M, n) ==
    /\ n >= 1
    /\ Shape(M) = <<n, n>>
    /\ \A i \in 1..n, j \in 1..n :
          M[i][j] = IF i = j THEN M[1][1] ELSE RZero

PosScaledEye(M, n) == IsScaledEye(M, n) /\ M[1][1][1] > 0

\* |z[j] - position j of the corrected state recorded in the field state|
Dist(s, z, j) == RAbs(RSub(float32(z[j]), s.state[j][1]))

UpdateOk == last.op = "update" /\ last.result = "ok"

UpdateFailed == last.op = "update" /\ last.result # "ok"

\* C1: every update that returns has done one predict and then one correct:
\* prediction is F*x for the x held before the call (a function of the prior
\* state alone, not of the measurement), state is the filter's statePost,
\* and statePost is the a priori state corrected with this call's
\* measurement z: with P- = F*P*F' + Q and S = H*P-*H' + R invertible,
\* det(S) * (state - prediction) = P-*H' * adj(S) * (z - H*prediction).
C1_UpdateIsPredictThenCorrect ==
    UpdateOk =>
        LET b == last.before
            a == inst[last.i]
            F == b.transitionMatrix
            H == b.measurementMatrix
            xpre == MatMul(F, b.statePost)
            Ppre == MatAdd(MatMul(MatMul(F, b.errorCovPost), Transpose(F)),
                           b.processNoiseCov)
            PHt == MatMul(Ppre, Transpose(H))
            S == MatAdd(MatMul(H, PHt), b.measurementNoiseCov)
            y == MatSub(MeasCol(last.args, Rows(H)), MatMul(H, xpre))
        IN  /\ a.prediction = xpre
            /\ a.state = a.statePost
            /\ a.errorCovPre = Ppre
            /\ Det(S)[1] # 0 =>
                 MatScale(Det(S), MatSub(a.state, xpre))
                   = MatMul(PHt, MatMul(Adj(S), y))

\* C1 witness: an update returned on an instance whose prior state x was not
\* zero and moves under F, and the correction changed the predicted state.
C1_Witness ==
    /\ UpdateOk
    /\ inst[last.i].prediction # last.before.statePost
    /\ inst[last.i].state # inst[last.i].prediction
    /\ Det(MatAdd(MatMul(MatMul(last.before.measurementMatrix,
                                inst[last.i].errorCovPre),
                         Transpose(last.before.measurementMatrix)),
                  last.before.measurementNoiseCov))[1] # 0

\* C2: construction succeeds exactly for (state_num, measure_num) = (2, 1)
\* and (4, 2); every other combination fails and leaves no instance (the
\* kind of error is left open here: a violation of this is a violation of
\* the claim, which also names the error).
C2_OnlySupportedConstructs ==
    last.op = "init" =>
        IF <<last.args[1], last.args[2]>> \in ConstModes
        THEN last.result = "ok" /\ inst[last.i].constructed
        ELSE last.result # "ok" /\ ~inst[last.i].constructed

\* C3: every constructed instance, after any calls, has n in {2, 4},
\* m = n/2, F n x n, H m x n, Q n x n, R m x m for the n and m its filter was
\* created with, and update and set_q_r leave F and H as they were.
C3_DimensionsFixed ==
    /\ \A i \in Inst :
          inst[i].constructed =>
              LET n == inst[i].state_num
                  m == inst[i].measure_num
              IN  /\ n \in {2, 4}
                  /\ 2 * m = n
                  /\ Shape(inst[i].transitionMatrix) = <<n, n>>
                  /\ Shape(inst[i].measurementMatrix) = <<m, n>>
                  /\ Shape(inst[i].processNoiseCov) = <<n, n>>
                  /\ Shape(inst[i].measurementNoiseCov) = <<m, m>>
    /\ last.op \in {"update", "set_q_r"} =>
          /\ inst[last.i].transitionMatrix = last.before.transitionMatrix
          /\ inst[last.i].measurementMatrix = last.before.measurementMatrix

\* C3 on the two supported configurations only (what remains of C3 when
\* the constructor's acceptance of other combinations is set aside).
C3_SupportedDimensionsFixed ==
    /\ \A i \in Inst :
          (inst[i].constructed /\ Supported(inst[i])) =>
              LET n == inst[i].state_num
                  m == inst[i].measure_num
              IN  /\ Shape(inst[i].transitionMatrix) = <<n, n>>
                  /\ Shape(inst[i].measurementMatrix) = <<m, n>>
                  /\ Shape(inst[i].processNoiseCov) = <<n, n>>
                  /\ Shape(inst[i].measurementNoiseCov) = <<m, m>>
    /\ last.op \in {"update", "set_q_r"} =>
          /\ inst[last.i].transitionMatrix = last.before.transitionMatrix
          /\ inst[last.i].measurementMatrix = last.before.measurementMatrix

\* C4: in every constructed instance Q is a positive scalar times I_n and R
\* a positive scalar times I_m; a constructor or set_q_r call given a zero
\* or negative covariance is rejected and leaves Q and R as they were.
C4_NoisePositive ==
    /\ \A i \in Inst :
          inst[i].constructed =>
              /\ PosScaledEye(inst[i].processNoiseCov, inst[i].state_num)
              /\ PosScaledEye(inst[i].measurementNoiseCov, inst[i].measure_num)
    /\ (last.op = "init" /\ (last.args[3] <= 0 \/ last.args[4] <= 0)) =>
          last.result # "ok"
    /\ (last.op = "set_q_r" /\ (last.args[1] <= 0 \/ last.args[2] <= 0)) =>
          /\ last.result # "ok"
          /\ inst[last.i].processNoiseCov = last.before.processNoiseCov
          /\ inst[last.i].measurementNoiseCov = last.before.measurementNoiseCov

\* C5: in both supported modes H = [I_m | 0]: H*x is the first m entries of
\* x, the velocity entries do not enter the innovation.
C5_HSelectsPosition ==
    \A i \in Inst :
        (inst[i].constructed /\ Supported(inst[i])) =>
            LET H == inst[i].measurementMatrix
                n == inst[i].state_num
                m == inst[i].measure_num
            IN  /\ Shape(H) = <<m, n>>
                /\ \A r \in 1..m, c \in 1..n :
                      H[r][c] = IF r = c THEN ROne ELSE RZero

\* C6: set_q_r(cov_process, cov_measure) leaves Q = cov_process * I_n and
\* R = cov_measure * I_m and changes nothing else of the instance.
C6_SetQROnlyQR ==
    last.op = "set_q_r" =>
        LET b == last.before
            a == inst[last.i]
        IN  /\ a.processNoiseCov = ScaledEye(b.state_num, float32(last.args[1]))
            /\ a.measurementNoiseCov
                 = ScaledEye(b.measure_num, float32(last.args[2]))
            /\ a = [b EXCEPT !.processNoiseCov = a.processNoiseCov,
                             !.measurementNoiseCov = a.measurementNoiseCov]

\* C6 on the two supported configurations only (what remains of C6 when
\* the constructor's acceptance of other combinations is set aside).
C6_SupportedSetQROnlyQR ==
    (last.op = "set_q_r" /\ Supported(last.before)) =>
        LET b == last.before
            a == inst[last.i]
        IN  /\ a.processNoiseCov = ScaledEye(b.state_num, float32(last.args[1]))
            /\ a.measurementNoiseCov
                 = ScaledEye(b.measure_num, float32(last.args[2]))
            /\ a = [b EXCEPT !.processNoiseCov = a.processNoiseCov,
                             !.measurementNoiseCov = a.measurementNoiseCov]

\* C7: update fails for a measurement whose number of components is not 1
\* in scalar mode (measure_num = 1) or not 2 in point mode (measure_num = 2);
\* an update that returns leaves prediction and state of length 2 in scalar
\* mode and 4 in point mode.
C7_WrongArityRejected ==
    (last.op = "update" /\ last.before.measure_num \in {1, 2}) =>
        /\ Len(last.args) # last.before.measure_num => last.result # "ok"
        /\ last.result = "ok" =>
              LET len == IF last.before.measure_num = 1 THEN 2 ELSE 4
              IN  /\ Shape(inst[last.i].prediction) = <<len, 1>>
                  /\ Shape(inst[last.i].state) = <<len, 1>>

C10_FailedUpdateChangesNothing ==
    UpdateFailed =>
        /\ inst[last.i].statePost = last.before.statePost
        /\ inst[last.i].errorCovPost = last.before.errorCovPost
        /\ inst[last.i].prediction = last.before.prediction
        /\ inst[last.i].state = last.before.state

\* C10 amended: an update that fails leaves the field state as it was; if
\* it failed inside predict, x, P and prediction are as before; if it failed
\* later (packing the measurement, or in correct) the predict step stays
\* applied: x = F*x, P = F*P*F' + Q, prediction = F*x.
C10_FailedUpdateKeepsPredict ==
    UpdateFailed =>
        LET b == last.before
            a == inst[last.i]
            F == b.transitionMatrix
        IN  /\ a.state = b.state
            /\ IF last.stage = "predict"
               THEN /\ a.statePost = b.statePost
                    /\ a.errorCovPost = b.errorCovPost
                    /\ a.prediction = b.prediction
               ELSE /\ a.statePost = MatMul(F, b.statePost)
                    /\ a.errorCovPost
                         = MatAdd(MatMul(MatMul(F, b.errorCovPost), Transpose(F)),
                                  b.processNoiseCov)
                    /\ a.prediction = a.statePost

\* C10 witness: an update failed while packing a too-short measurement on
\* a supported instance, after predict had changed x and P.
C10_Witness ==
    /\ UpdateFailed /\ last.stage = "pack" /\ Supported(last.before)
    /\ inst[last.i].statePost # last.before.statePost
    /\ inst[last.i].errorCovPost # last.before.errorCovPost

====
